---- MODULE Spec2Model ----
(***************************************************************************)
(* The agent conversation engine of ShadowAgents: an Agent with a tool     *)
(* registry, and Agent.Run, the turn loop that sends a prompt through a    *)
(* chat session, looks for a function call in the model's response,        *)
(* dispatches it to the registered tool and sends the result back.         *)
(*                                                                         *)
(* One Agent is modelled.  Run is split at its calls into the external     *)
(* collaborators: ChatSession.SendMessage (which answers or fails) and     *)
(* Tool.Execute (which returns a result or an error, and may register      *)
(* tools on the agent while it runs).                                      *)
(***************************************************************************)
EXTENDS Integers, Sequences, FiniteSets, TLC

VARIABLES
    tools,       \* Agent.tools: the registry, tool name -> Tool
    modelTools,  \* Agent.model.Tools: the declarations set on the GenerativeModel
    pc,          \* position of Run
    sent,        \* messages given to session.SendMessage in the current Run
    resp,        \* Run's local resp
    fc,          \* Run's local fc
    tool,        \* Run's local tool (the value read from the registry)
    looked,      \* names looked up in a.tools in the current Run
    calls,       \* calls of Tool.Execute in the current Run, with their outcome
    startTools,  \* history: the registry as it was when the current Run was called
    result,      \* Run's returned string
    err,         \* Run's returned error
    lastReg,     \* history: per name, the Tool most recently given to RegisterTools
    regOrder,    \* history: the registered names in the order of their first registration
    child,       \* the Run of a sub-agent called by a sub-agent tool's Execute
    agentName,   \* NewSubAgentTool: subAgent.config.Name
    toolName,    \* NewSubAgentTool: the Schema.Name of the tool it returns
    structIn,    \* generateSchemaFromStruct: the fields of paramType
    schemaOut,   \* generateSchemaFromStruct: what it returned
    propOrder,   \* an iteration over the returned schema's Properties map
    mgr,         \* the manager-based Agent: tools, toolFuncs and model.Tools
    runs,        \* two Runs that execute concurrently, and the Tools of their models
    chain,       \* the Runs on one call chain of sub-agent tools, innermost last
    manager,     \* an AgentManager: its agents map and the subAgents of every agent
    task,        \* an execution of the manager-based Agent.ExecuteTask
    setup        \* globalClient, globalModel and what NewAgent returned

runVars == <<tools, modelTools, pc, sent, resp, fc, tool, looked, calls, startTools, result, err>>
regVars == <<lastReg, regOrder>>
nameVars == <<agentName, toolName>>
schemaVars == <<structIn, schemaOut, propOrder, mgr>>
lateVars == <<runs, chain, manager, task, setup>>
otherVars == <<child, nameVars, schemaVars, lateVars>>
vars == <<runVars, regVars, child, nameVars, schemaVars, lateVars>>

----------------------------------------------------------------------------
\* Bounds of the model.

\* most Tool.Execute calls explored in one Run
MaxRoundTrips == 2
\* most parts in one model response
MaxParts == 2
\* most tools passed to one RegisterTools call
MaxBatch == 1
\* the round-trip maximum the specification asks for (the code configures none)
TurnLimit == 2

----------------------------------------------------------------------------
\* Values.

ToolNames == {"t1", "t2"}
Executors == {"f", "g"}
Prompts == {"ping"}
Texts == {"a", "b"}

NilSchema == "<nil>"
\* a Tool value: its Schema (only the name matters to Run) and its Execute
ToolValues == [schema : ToolNames \cup {NilSchema}, exec : Executors]
NoTool == [schema |-> NilSchema, exec |-> "<none>"]
EmptyRegistry == [n \in ToolNames |-> NoTool]

\* genai parts of a response
TextPart(t) == [kind |-> "Text", text |-> t, name |-> ""]
FunctionCall(n) == [kind |-> "FunctionCall", text |-> "", name |-> n]
Parts == {TextPart(t) : t \in Texts} \cup {FunctionCall(n) : n \in ToolNames}
NoCall == [kind |-> "nil", text |-> "", name |-> ""]

SeqsUpTo(S, n) == UNION {[1..k -> S] : k \in 0..n}

\* GenerateContentResponse: Candidates nil, Candidates empty, Candidates[0].Content
\* nil, or Candidates[0].Content.Parts
Responses ==
    {[shape |-> s, parts |-> <<>>] : s \in {"nilCandidates", "noCandidates", "nilContent"}}
    \cup {[shape |-> "content", parts |-> ps] : ps \in SeqsUpTo(Parts, MaxParts)}
NoResp == [shape |-> "unset", parts |-> <<>>]

\* messages handed to SendMessage: vtx.Text(prompt) and vtx.FunctionResponse{Name, Response}
TextMsg(p) == [kind |-> "Text", name |-> "", response |-> [text |-> p]]
FunctionResponse(n, r) == [kind |-> "FunctionResponse", name |-> n, response |-> r]

\* what Tool.Execute returns: (toolResult, nil), a map, or (nil, err), an error
ExecResults == {[data |-> "r1"]}
ExecErrors == {[msg |-> "boom"]}
ExecOk(r) == [state |-> "ok", val |-> r]
ExecErr(e) == [state |-> "err", val |-> e]
Running == [state |-> "running", val |-> [running |-> TRUE]]
Outcomes == {ExecOk(r) : r \in ExecResults} \cup {ExecErr(e) : e \in ExecErrors}

Last(s) == s[Len(s)]
Range(s) == {s[i] : i \in DOMAIN s}

----------------------------------------------------------------------------
\* Pure parts of the code.

\* a plausible slip: a name that is already registered keeps its first tool
RECURSIVE RegisterKeepFirst(_, _)
RegisterKeepFirst(reg, ts) ==
    IF ts = <<>> THEN reg
    ELSE LET t == Head(ts)
             reg1 == IF t.schema # NilSchema /\ reg[t.schema] = NoTool
                     THEN [reg EXCEPT ![t.schema] = t]
                     ELSE reg
         IN RegisterKeepFirst(reg1, Tail(ts))

\* RegisterTools' loop: a tool with a nil Schema is skipped, any other is stored
\* under its schema's name, replacing what was there
RECURSIVE RegisterAll(_, _)
RegisterAll(reg, ts) ==
    IF ts = <<>> THEN reg
    ELSE LET t == Head(ts)
             reg1 == IF t.schema # NilSchema
                     THEN [reg EXCEPT ![t.schema] = t]
                     ELSE reg
         IN RegisterAll(reg1, Tail(ts))

Registered(reg) == {n \in DOMAIN reg : reg[n] # NoTool}

\* the funcDecls slices Run can build by ranging over the map a.tools: one schema per
\* entry, in the map's iteration order, which Go leaves unspecified
FuncDecls(reg) ==
    {s \in [1..Cardinality(Registered(reg)) -> Registered(reg)] :
        \A i, j \in DOMAIN s : i # j => s[i] # s[j]}

\* a plausible slip: the declarations are set only on a model that has none yet
ModelToolsKeptIfSet(reg, old, decls) ==
    IF Registered(reg) # {} /\ old = <<>> THEN decls ELSE old

\* the model's Tools after Run's first block: replaced by the registry's declarations
\* when the registry is not empty, left as they were when it is
ModelToolsForRun(reg, old, decls) ==
    IF Registered(reg) # {} THEN decls ELSE old

\* a plausible slip: the loop over the parts has no break, so the last call wins
RECURSIVE LastFunctionCallFrom(_, _)
LastFunctionCallFrom(parts, i) ==
    IF i < 1 THEN 0
    ELSE IF parts[i].kind = "FunctionCall" THEN i
    ELSE LastFunctionCallFrom(parts, i - 1)

LastFunctionCall(parts) == LastFunctionCallFrom(parts, Len(parts))

\* Run's search for a function call: the index of the first FunctionCall part, 0 if none
RECURSIVE FirstFunctionCallFrom(_, _)
FirstFunctionCallFrom(parts, i) ==
    IF i > Len(parts) THEN 0
    ELSE IF parts[i].kind = "FunctionCall" THEN i
    ELSE FirstFunctionCallFrom(parts, i + 1)

FirstFunctionCall(parts) == FirstFunctionCallFrom(parts, 1)

\* responseToText's loop: the Text parts written to the builder in part order
RECURSIVE ConcatText(_)
ConcatText(parts) ==
    IF parts = <<>> THEN ""
    ELSE (IF Head(parts).kind = "Text" THEN Head(parts).text ELSE "") \o ConcatText(Tail(parts))

\* a plausible slip: only the first part is looked at, as ExecuteTask does
FirstPartText(r) ==
    IF r.shape = "content" /\ r.parts # <<>> /\ r.parts[1].kind = "Text"
    THEN r.parts[1].text ELSE ""

\* a plausible slip: a placeholder answer when there is no text, as an earlier Run gave
TextOrPlaceholder(r) ==
    IF r.shape = "content" /\ ConcatText(r.parts) # "" THEN ConcatText(r.parts)
    ELSE "No response from model."

responseToText(r) ==
    IF r.shape = "content" THEN ConcatText(r.parts) ELSE ""

\* a plausible slip: the error is sent under the key of a successful result
ErrorAsResult(e) == [result |-> e.msg]

\* the payload Run sends when Tool.Execute fails: {"error": err.Error()}
ErrorResponse(e) == [error |-> e.msg]

\* a plausible slip: the result is wrapped as ExecuteTask wraps it
ResultWrapped(r) == [result |-> r.data]

\* the payload Run sends when Tool.Execute succeeds: the tool's own map
ResultResponse(r) == r

\* the error Run returns when the SendMessage at a site fails
SendError(site) ==
    CASE site = "prompt" -> "failed to send message"
      [] site = "toolError" -> "failed to send tool error response"
      [] site = "toolResult" -> "failed to send tool result"

\* one SendMessage call: the message, the tools the model advertises with it, the place
\* in Run that sends it and, once known, how the call ended
Sending(m, decls, site) == [msg |-> m, tools |-> decls, site |-> site, answer |-> "pending"]
Answered(s, how) == [s EXCEPT ![Len(s)].answer = how]

----------------------------------------------------------------------------
\* NewSubAgentTool's name. A name is the sequence of its characters.

MaxNameLen == 3
NameChars == {" ", "a", "B", "_"}
Names == SeqsUpTo(NameChars, MaxNameLen)

\* the older NewSubAgentTool: strings.ReplaceAll(name, " ", ""), the spaces are dropped
RECURSIVE RemoveSpaces(_)
RemoveSpaces(cs) ==
    IF cs = <<>> THEN <<>>
    ELSE (IF Head(cs) = " " THEN <<>> ELSE <<Head(cs)>>) \o RemoveSpaces(Tail(cs))

\* strings.ReplaceAll(name, " ", "_"): the old and the new string are one character
\* each, so every " " becomes "_" in place
RECURSIVE ReplaceAll(_, _, _)
ReplaceAll(cs, old, new) ==
    IF cs = <<>> THEN <<>>
    ELSE <<IF Head(cs) = old THEN new ELSE Head(cs)>> \o ReplaceAll(Tail(cs), old, new)

sanitizedName(cs) == ReplaceAll(cs, " ", "_")

\* the string of a sequence of characters
RECURSIVE Str(_)
Str(cs) == IF cs = <<>> THEN "" ELSE Head(cs) \o Str(Tail(cs))

----------------------------------------------------------------------------
\* generateSchemaFromStruct. A struct type is the sequence of its fields; a field has
\* its json tag (a sequence of characters, empty when the field has no json tag), its
\* kind and its description tag.

MaxFields == 2

Omitempty == <<"o", "m", "i", "t", "e", "m", "p", "t", "y">>
\* the json tags: none, "-", "x", "y", "x,omitempty", ",omitempty"
JsonTags ==
    { <<>>, <<"-">>, <<"x">>, <<"y">>, <<"x", ",">> \o Omitempty, <<",">> \o Omitempty }
Kinds == {"string", "int", "float64", "bool", "slice"}
Fields == [tag : JsonTags, kind : Kinds, desc : {"d"}]
Structs == SeqsUpTo(Fields, MaxFields)

\* strings.Split(s, sep) for a separator of one character
RECURSIVE Split(_, _)
Split(cs, sep) ==
    IF \A i \in DOMAIN cs : cs[i] # sep THEN <<cs>>
    ELSE LET k == CHOOSE i \in DOMAIN cs : cs[i] = sep /\ \A j \in 1..(i - 1) : cs[j] # sep
         IN <<SubSeq(cs, 1, k - 1)>> \o Split(SubSeq(cs, k + 1, Len(cs)), sep)

\* a plausible slip: a field of any other kind is declared with the unspecified type
KindTypeDefaulting(kind) ==
    CASE kind = "string" -> "STRING"
      [] kind = "int" -> "INTEGER"
      [] kind = "float64" -> "NUMBER"
      [] kind = "bool" -> "BOOLEAN"
      [] OTHER -> "TYPE_UNSPECIFIED"

\* the switch on field.Type.Kind(): the genai type, or the default branch
KindType(kind) ==
    CASE kind = "string" -> "STRING"
      [] kind = "int" -> "INTEGER"
      [] kind = "float64" -> "NUMBER"
      [] kind = "bool" -> "BOOLEAN"
      [] OTHER -> "unsupported"

\* properties[propName] = &genai.Schema{...}: a map assignment
MapPut(m, k, v) == [x \in DOMAIN m \cup {k} |-> IF x = k THEN v ELSE m[x]]
EmptyMap == [x \in {} |-> [type |-> "", desc |-> ""]]

\* what generateSchemaFromStruct returns: a schema and a nil error, or nil and an error
SchemaOk(properties, required) ==
    [state |-> "ok", type |-> "OBJECT", properties |-> properties, required |-> required]
SchemaErr(i, kind) ==
    [state |-> "err", msg |-> "unsupported type for field", field |-> i, kind |-> kind]

\* the loop over the fields, from field i on, with the properties and required so far
RECURSIVE SchemaFrom(_, _, _, _)
SchemaFrom(fields, i, properties, required) ==
    IF i > Len(fields) THEN SchemaOk(properties, required)
    ELSE LET field == fields[i]
             jsonTag == field.tag
         IN IF jsonTag = <<>> \/ jsonTag = <<"-">>
            THEN SchemaFrom(fields, i + 1, properties, required)
            ELSE LET parts == Split(jsonTag, ",")
                     propName == parts[1]
                     isOptional == \E k \in 2..Len(parts) : parts[k] = Omitempty
                     required1 == IF ~isOptional THEN Append(required, propName)
                                  ELSE required
                     propType == KindType(field.kind)
                 IN IF propType = "unsupported" THEN SchemaErr(i, field.kind)
                    ELSE SchemaFrom(fields, i + 1,
                                    MapPut(properties, propName,
                                           [type |-> propType, desc |-> field.desc]),
                                    required1)

generateSchemaFromStruct(paramType) == SchemaFrom(paramType, 1, EmptyMap, <<>>)

\* the Properties of what generateSchemaFromStruct returned: none when it returned nil
PropertiesOf(s) == IF s.state = "ok" THEN s.properties ELSE EmptyMap

\* the orders in which a range over a Go map can visit its keys
KeyOrders(m) ==
    {s \in [1..Cardinality(DOMAIN m) -> DOMAIN m] : \A i, j \in DOMAIN s : i # j => s[i] # s[j]}

----------------------------------------------------------------------------

----------------------------------------------------------------------------
\* A parent agent whose one tool is NewSubAgentTool(child).

ChildName == <<"a", " ", "B">>
SubToolName == Str(sanitizedName(ChildName))
SubRegistry == [n \in {SubToolName} |-> [schema |-> SubToolName, exec |-> "subAgent"]]

\* the args of a call of the sub-agent tool: args["prompt"] is a string, is a value of
\* another type, or is absent
PromptArg(type, val) == [prompt |-> [present |-> TRUE, type |-> type, val |-> val]]
NoPromptArg == [prompt |-> [present |-> FALSE, type |-> "", val |-> ""]]
SubArgs ==
    {PromptArg("string", "ping"), PromptArg("string", "pong"), PromptArg("number", "7"),
     NoPromptArg}
SubCall(a) == [kind |-> "FunctionCall", text |-> "", name |-> SubToolName, args |-> a]
\* what the parent's model answers: nothing, a text, a call of the sub-agent tool, or a
\* text and a call
SubPartSeqs ==
    {<<>>, <<TextPart("a")>>, <<TextPart("a"), SubCall(PromptArg("string", "ping"))>>}
    \cup {<<SubCall(a)>> : a \in SubArgs}
SubResponses ==
    {[shape |-> "nilCandidates", parts |-> <<>>]}
    \cup {[shape |-> "content", parts |-> ps] : ps \in SubPartSeqs}

\* the child: an agent with one tool of its own, c1; its model can also ask for c2
ChildToolNames == {"c1", "c2"}
ChildRegistry ==
    [n \in ChildToolNames |-> IF n = "c1" THEN [schema |-> "c1", exec |-> "f"] ELSE NoTool]
ChildPartSeqs ==
    {<<>>, <<TextPart("a")>>, <<TextPart("a"), FunctionCall("c1")>>}
    \cup {<<FunctionCall(n)>> : n \in ChildToolNames}
ChildResponses ==
    {[shape |-> "nilCandidates", parts |-> <<>>]}
    \cup {[shape |-> "content", parts |-> ps] : ps \in ChildPartSeqs}

\* a plausible slip: any prompt that is present is taken
PromptPresent(args) == args.prompt.present

\* prompt, ok := args["prompt"].(string)
PromptOk(args) == args.prompt.present /\ args.prompt.type = "string"

\* a plausible slip: the text is returned under another key
SubAgentResultAsText(t) == [text |-> t]

\* what the sub-agent tool's Execute returns when the child's Run returned t
SubAgentResult(t) == [result |-> t]

\* the error it returns when the prompt is not a string, and when the child's Run failed
InvalidPrompt == [msg |-> "invalid 'prompt' argument, expected a string"]
SubAgentFailure(e) == [msg |-> "sub-agent '" \o Str(ChildName) \o "' failed: " \o e]

\* history of RegisterTools: the last tool of the batch that carries a name is the one
\* given last for that name
LastGiven(last, ts) ==
    [n \in DOMAIN last |->
        LET at == {i \in DOMAIN ts : ts[i].schema = n}
        IN IF at = {} THEN last[n]
           ELSE ts[CHOOSE i \in at : \A j \in at : j <= i]]

\* history of RegisterTools: names are added to the order when they are first registered
RECURSIVE FirstRegistered(_, _)
FirstRegistered(order, ts) ==
    IF ts = <<>> THEN order
    ELSE LET n == Head(ts).schema
         IN FirstRegistered(IF n = NilSchema \/ n \in Range(order) THEN order
                            ELSE Append(order, n),
                            Tail(ts))

\* the variables of the sub-agent, of NewSubAgentTool and of the schema generator at rest
\* the sub-agent between runs: shared tells whether it uses the global default model,
\* as its parent does, or a model of its own, whose Tools are then modelTools here
NoChild ==
    [pc |-> "Idle", shared |-> FALSE, modelTools |-> <<>>, sent |-> <<>>, resp |-> NoResp,
     fc |-> NoCall, calls |-> <<>>, result |-> "", err |-> ""]
Unset == <<"<unset>">>
NoSchema == [state |-> "none"]
LateAtRest ==
    /\ runs = NoSchema
    /\ chain = <<>>
    /\ manager = NoSchema
    /\ task = NoSchema
    /\ setup = NoSchema

OthersAtRest ==
    /\ child = NoChild
    /\ agentName = <<>>
    /\ toolName = Unset
    /\ structIn = <<>>
    /\ schemaOut = NoSchema
    /\ propOrder = Unset
    /\ mgr = NoSchema
    /\ LateAtRest

\* a new Agent: no tools, no run
AgentAtRest ==
    /\ tools = EmptyRegistry
    /\ modelTools = <<>>
    /\ pc = "Idle"
    /\ sent = <<>>
    /\ resp = NoResp
    /\ fc = NoCall
    /\ tool = NoTool
    /\ looked = <<>>
    /\ calls = <<>>
    /\ startTools = EmptyRegistry
    /\ result = ""
    /\ err = ""
    /\ lastReg = EmptyRegistry
    /\ regOrder = <<>>

Init ==
    /\ AgentAtRest
    /\ OthersAtRest

\* Agent.RegisterTools(tools...), called between runs or by a tool's Execute during a run
RegisterTools(ts) ==
    /\ pc \in {"Idle", "DispatchingTool"}
    /\ tools' = RegisterAll(tools, ts)
    /\ UNCHANGED <<modelTools, pc, sent, resp, fc, tool, looked, calls, startTools, result, err>>
    /\ lastReg' = LastGiven(lastReg, ts)
    /\ regOrder' = FirstRegistered(regOrder, ts)
    /\ UNCHANGED otherVars

\* Run up to its first SendMessage: set the model's tools, start a chat, send the prompt
RunStart(prompt, decls) ==
    /\ pc = "Idle"
    /\ modelTools' = ModelToolsForRun(tools, modelTools, decls)
    /\ sent' = <<Sending(TextMsg(prompt), modelTools', "prompt")>>
    /\ pc' = "AwaitingModel"
    /\ startTools' = tools
    /\ UNCHANGED <<tools, resp, fc, tool, looked, calls, result, err>>
    /\ UNCHANGED <<regVars, otherVars>>

\* session.SendMessage returns a response
SendOk(r) ==
    /\ pc = "AwaitingModel"
    /\ sent' = Answered(sent, "ok")
    /\ resp' = r
    /\ pc' = "ProcessingResponse"
    /\ UNCHANGED <<tools, modelTools, fc, tool, looked, calls, startTools, result, err>>
    /\ UNCHANGED <<regVars, otherVars>>

\* a plausible slip: the error of the send after a failed tool is not checked, and the
\* loop goes on with a response that holds nothing
SendFailUnchecked ==
    /\ pc = "AwaitingModel"
    /\ sent' = Answered(sent, "error")
    /\ IF Last(sent).site = "toolError"
       THEN /\ pc' = "ProcessingResponse"
            /\ resp' = [shape |-> "nilCandidates", parts |-> <<>>]
            /\ UNCHANGED <<result, err>>
       ELSE /\ pc' = "Failed"
            /\ result' = ""
            /\ err' = SendError(Last(sent).site)
            /\ UNCHANGED resp
    /\ UNCHANGED <<tools, modelTools, fc, tool, looked, calls, startTools>>
    /\ UNCHANGED <<regVars, otherVars>>

\* session.SendMessage returns an error: Run returns it, wrapped
SendFail ==
    /\ pc = "AwaitingModel"
    /\ sent' = Answered(sent, "error")
    /\ pc' = "Failed"
    /\ result' = ""
    /\ err' = SendError(Last(sent).site)
    /\ UNCHANGED <<tools, modelTools, resp, fc, tool, looked, calls, startTools>>
    /\ UNCHANGED <<regVars, otherVars>>

\* the body of Run's loop up to tool.Execute
ProcessResponse ==
    /\ pc = "ProcessingResponse"
    /\ IF resp.shape # "content" \/ FirstFunctionCall(resp.parts) = 0
       THEN /\ pc' = "Done"
            /\ result' = responseToText(resp)
            /\ err' = ""
            /\ UNCHANGED <<fc, tool, looked, calls>>
       ELSE LET f == resp.parts[FirstFunctionCall(resp.parts)] IN
            /\ fc' = f
            /\ IF tools[f.name] = NoTool
               THEN /\ looked' = Append(looked, [name |-> f.name, found |-> FALSE])
                    /\ pc' = "Failed"
                    /\ result' = ""
                    /\ err' = "model requested unknown tool"
                    /\ UNCHANGED <<tool, calls>>
               ELSE /\ Len(calls) < MaxRoundTrips
                    /\ looked' = Append(looked, [name |-> f.name, found |-> TRUE])
                    /\ tool' = tools[f.name]
                    /\ calls' = Append(calls, [name |-> f.name, out |-> Running])
                    /\ pc' = "DispatchingTool"
                    /\ UNCHANGED <<result, err>>
    /\ UNCHANGED <<tools, modelTools, sent, resp, startTools>>
    /\ UNCHANGED <<regVars, otherVars>>

\* tool.Execute returns; Run sends the result, or the error, back to the model.  The
\* SendMessage call assigns resp, and fc and tool are locals of the iteration that ends
\* here: none of their old values is read again
ExecuteReturnBody(out) ==
    /\ pc = "DispatchingTool"
    /\ calls' = [calls EXCEPT ![Len(calls)].out = out]
    /\ sent' = Append(sent,
                 IF out.state = "err"
                 THEN Sending(FunctionResponse(fc.name, ErrorResponse(out.val)),
                              modelTools, "toolError")
                 ELSE Sending(FunctionResponse(fc.name, ResultResponse(out.val)),
                              modelTools, "toolResult"))
    /\ pc' = "AwaitingModel"
    /\ resp' = NoResp
    /\ fc' = NoCall
    /\ tool' = NoTool
    /\ UNCHANGED <<tools, modelTools, looked, startTools, result, err>>

\* a plausible slip: Run returns the tool's result as its answer instead of sending it
ExecuteReturnDone(out) ==
    /\ pc = "DispatchingTool"
    /\ calls' = [calls EXCEPT ![Len(calls)].out = out]
    /\ pc' = IF out.state = "err" THEN "Failed" ELSE "Done"
    /\ result' = IF out.state = "err" THEN "" ELSE "r1"
    /\ err' = IF out.state = "err" THEN out.val.msg ELSE ""
    /\ UNCHANGED <<tools, modelTools, sent, resp, fc, tool, looked, startTools>>
    /\ UNCHANGED <<regVars, otherVars>>

\* a plausible slip: a tool whose Execute failed is taken out of the registry
ExecuteReturnDropping(out) ==
    /\ pc = "DispatchingTool"
    /\ calls' = [calls EXCEPT ![Len(calls)].out = out]
    /\ sent' = Append(sent,
                 IF out.state = "err"
                 THEN Sending(FunctionResponse(fc.name, ErrorResponse(out.val)),
                              modelTools, "toolError")
                 ELSE Sending(FunctionResponse(fc.name, ResultResponse(out.val)),
                              modelTools, "toolResult"))
    /\ tools' = IF out.state = "err" THEN [tools EXCEPT ![fc.name] = NoTool] ELSE tools
    /\ pc' = "AwaitingModel"
    /\ resp' = NoResp
    /\ fc' = NoCall
    /\ tool' = NoTool
    /\ UNCHANGED <<modelTools, looked, startTools, result, err>>
    /\ UNCHANGED <<regVars, otherVars>>

ExecuteReturn(out) ==
    /\ ExecuteReturnBody(out)
    /\ UNCHANGED <<regVars, otherVars>>

\* Run has returned to its caller; its locals are gone and Run may be called again
Return ==
    /\ pc \in {"Done", "Failed"}
    /\ pc' = "Idle"
    /\ sent' = <<>>
    /\ resp' = NoResp
    /\ fc' = NoCall
    /\ tool' = NoTool
    /\ looked' = <<>>
    /\ calls' = <<>>
    /\ startTools' = EmptyRegistry
    /\ result' = ""
    /\ err' = ""
    /\ UNCHANGED <<tools, modelTools>>
    /\ UNCHANGED <<regVars, otherVars>>

Next ==
    \/ \E ts \in SeqsUpTo(ToolValues, MaxBatch) \ {<<>>} : RegisterTools(ts)
    \/ \E p \in Prompts : \E d \in FuncDecls(tools) : RunStart(p, d)
    \/ \E r \in Responses : SendOk(r)
    \/ SendFail
    \/ ProcessResponse
    \/ \E o \in Outcomes : ExecuteReturn(o)
    \/ Return

Spec == Init /\ [][Next]_vars

----------------------------------------------------------------------------
\* NewSubAgentTool(subAgent) for agents of every name.

InitName ==
    /\ AgentAtRest
    /\ child = NoChild
    /\ agentName \in Names
    /\ toolName = Unset
    /\ structIn = <<>>
    /\ schemaOut = NoSchema
    /\ propOrder = Unset
    /\ mgr = NoSchema
    /\ LateAtRest

\* NewSubAgentTool: the returned tool's Schema.Name
NewSubAgentTool ==
    /\ toolName = Unset
    /\ toolName' = sanitizedName(agentName)
    /\ UNCHANGED <<runVars, regVars, child, agentName, schemaVars, lateVars>>

NextName == NewSubAgentTool

SpecName == InitName /\ [][NextName]_vars

----------------------------------------------------------------------------
\* generateSchemaFromStruct(paramType) for every struct type, and a range over the
\* Properties of the schema it returned.

InitSchema ==
    /\ AgentAtRest
    /\ child = NoChild
    /\ agentName = <<>>
    /\ toolName = Unset
    /\ structIn \in Structs
    /\ schemaOut = NoSchema
    /\ propOrder = Unset
    /\ mgr = NoSchema
    /\ LateAtRest

GenerateSchema ==
    /\ schemaOut = NoSchema
    /\ schemaOut' = generateSchemaFromStruct(structIn)
    /\ UNCHANGED <<runVars, regVars, child, nameVars, structIn, propOrder, mgr, lateVars>>

\* for name := range schema.Properties
RangeProperties(order) ==
    /\ schemaOut.state = "ok"
    /\ propOrder = Unset
    /\ propOrder' = order
    /\ UNCHANGED <<runVars, regVars, child, nameVars, structIn, schemaOut, mgr, lateVars>>

NextSchema ==
    \/ GenerateSchema
    \/ \E o \in KeyOrders(PropertiesOf(schemaOut)) : RangeProperties(o)

SpecSchema == InitSchema /\ [][NextSchema]_vars

----------------------------------------------------------------------------
\* The manager-based Agent: AgentManager.NewAgent, Agent.RegisterTool(name, description,
\* toolFunc) and registerToolInternal.

MaxRegistered == 2

\* what toolFunc can be: not a function, a function of the wrong number of arguments or
\* results, one whose argument is not a struct, one whose results are not a string and
\* a type named error, a func(T) (string, E) where E is a type that the caller's package
\* declares under the name error and that is not the predeclared interface, or a
\* func(T) (string, error)
FuncShapes == {"notFunc", "arity", "nonStruct", "badReturn", "namedError", "ok"}
ToolFields == [tag : {<<"x">>, <<"-">>}, kind : {"string", "slice"}, desc : {"d"}]
ToolStructs == SeqsUpTo(ToolFields, MaxFields)

NoFunc == "<none>"
\* AgentManager.NewAgent: no tools, no functions, model.Tools = []*genai.Tool{}
NewManagedAgent ==
    [tools |-> [n \in ToolNames |-> NoSchema],
     toolFuncs |-> [n \in ToolNames |-> NoFunc],
     modelTools |-> <<>>,
     shape |-> "",
     ret |-> ""]

\* the checks of RegisterTool on toolFunc's type, in the order of the code: the error
\* of the first one that fails, "" when all pass. The last check compares
\* typ.Out(1).Name() with "error", which any type of that name passes
ShapeError(shape) ==
    CASE shape = "notFunc" -> "toolFunc must be a function"
      [] shape = "arity" -> "toolFunc must have the signature func(T) (string, error)"
      [] shape = "nonStruct" -> "toolFunc's first argument must be a struct"
      [] shape = "badReturn" -> "toolFunc must return (string, error)"
      [] OTHER -> ""

\* registerToolInternal(name, description, params, toolFunc)
registerToolInternal(a, name, params, toolFunc) ==
    [a EXCEPT !.tools[name] = params,
              !.toolFuncs[name] = toolFunc,
              !.modelTools = Append(a.modelTools, [name |-> name, params |-> params])]

\* what RegisterTool leaves: the agent, with the error it returned ("" for nil)
Returned(a, shape, e) == [a EXCEPT !.shape = shape, !.ret = e]

InitMgr ==
    /\ AgentAtRest
    /\ child = NoChild
    /\ agentName = <<>>
    /\ toolName = Unset
    /\ structIn = <<>>
    /\ schemaOut = NoSchema
    /\ propOrder = Unset
    /\ mgr = NewManagedAgent
    /\ LateAtRest

\* Agent.RegisterTool(name, description, toolFunc); paramType is toolFunc's argument
\* type when toolFunc is a func(T) (string, error)
RegisterTool(name, shape, paramType) ==
    LET schema == generateSchemaFromStruct(paramType)
    IN /\ IF ShapeError(shape) # ""
          THEN /\ mgr' = Returned(mgr, shape, ShapeError(shape))
               /\ structIn' = <<>>
               /\ schemaOut' = NoSchema
          ELSE /\ structIn' = paramType
               /\ schemaOut' = schema
               /\ IF schema.state = "err"
                  THEN mgr' = Returned(mgr, shape,
                                       "failed to generate schema from struct: " \o schema.msg)
                  ELSE /\ Len(mgr.modelTools) < MaxRegistered
                       /\ mgr' = Returned(registerToolInternal(mgr, name, schema, "wrapperFunc"),
                                          shape, "")
       /\ UNCHANGED <<runVars, regVars, child, nameVars, propOrder, lateVars>>

NextMgr ==
    \E n \in ToolNames :
        \/ \E sh \in FuncShapes \ {"ok"} : RegisterTool(n, sh, <<>>)
        \/ \E t \in ToolStructs : RegisterTool(n, "ok", t)

SpecMgr == InitMgr /\ [][NextMgr]_vars

----------------------------------------------------------------------------
\* A Run of the parent whose model calls the sub-agent tool; the tool's Execute runs
\* the child's Run to its end before it returns.

InitSub ==
    /\ tools = SubRegistry
    /\ modelTools = <<>>
    /\ pc = "Idle"
    /\ sent = <<>>
    /\ resp = NoResp
    /\ fc = NoCall
    /\ tool = NoTool
    /\ looked = <<>>
    /\ calls = <<>>
    /\ startTools = EmptyRegistry
    /\ result = ""
    /\ err = ""
    /\ lastReg = SubRegistry
    /\ regOrder = <<SubToolName>>
    /\ child \in {[NoChild EXCEPT !.shared = b] : b \in BOOLEAN}
    /\ agentName = ChildName
    /\ toolName = sanitizedName(ChildName)
    /\ structIn = <<>>
    /\ schemaOut = NoSchema
    /\ propOrder = Unset
    /\ mgr = NoSchema
    /\ LateAtRest

\* the Tools of the child's model
ChildModelTools == IF child.shared THEN modelTools ELSE child.modelTools

\* the child's Run up to its first SendMessage
ChildRunStart(prompt, decls) ==
    LET mt == ModelToolsForRun(ChildRegistry, ChildModelTools, decls)
    IN /\ child' = [child EXCEPT !.pc = "AwaitingModel",
                                 !.modelTools = IF child.shared THEN @ ELSE mt,
                                 !.sent = <<Sending(TextMsg(prompt), mt, "prompt")>>]
       /\ modelTools' = IF child.shared THEN mt ELSE modelTools

\* the sub-agent tool's Execute is called: it returns at once when the prompt is not
\* a string, and calls subAgent.Run(ctx, prompt) when it is
SubAgentExecute(decls) ==
    /\ pc = "DispatchingTool"
    /\ tool.exec = "subAgent"
    /\ child.pc = "Idle"
    /\ IF ~PromptOk(fc.args)
       THEN /\ ExecuteReturnBody(ExecErr(InvalidPrompt))
            /\ UNCHANGED child
       ELSE /\ ChildRunStart(fc.args.prompt.val, decls)
            /\ UNCHANGED <<tools, pc, sent, resp, fc, tool, looked, calls, startTools,
                           result, err>>
    /\ UNCHANGED <<regVars, nameVars, schemaVars, lateVars>>

\* the child's session.SendMessage returns a response
ChildSendOk(r) ==
    /\ child.pc = "AwaitingModel"
    /\ child' = [child EXCEPT !.pc = "ProcessingResponse",
                              !.sent = Answered(@, "ok"),
                              !.resp = r]
    /\ UNCHANGED <<runVars, regVars, nameVars, schemaVars, lateVars>>

\* the child's session.SendMessage fails: the child's Run returns the wrapped error
ChildSendFail ==
    /\ child.pc = "AwaitingModel"
    /\ child' = [child EXCEPT !.pc = "Failed",
                              !.sent = Answered(@, "error"),
                              !.result = "",
                              !.err = SendError(Last(child.sent).site)]
    /\ UNCHANGED <<runVars, regVars, nameVars, schemaVars, lateVars>>

\* the child's Run looks at the response
ChildProcessResponse ==
    /\ child.pc = "ProcessingResponse"
    /\ IF child.resp.shape # "content" \/ FirstFunctionCall(child.resp.parts) = 0
       THEN child' = [child EXCEPT !.pc = "Done",
                                   !.result = responseToText(child.resp),
                                   !.err = ""]
       ELSE LET f == child.resp.parts[FirstFunctionCall(child.resp.parts)] IN
            IF ChildRegistry[f.name] = NoTool
            THEN child' = [child EXCEPT !.pc = "Failed",
                                        !.fc = f,
                                        !.result = "",
                                        !.err = "model requested unknown tool"]
            ELSE /\ Len(child.calls) < MaxRoundTrips
                 /\ child' = [child EXCEPT !.pc = "DispatchingTool",
                                           !.fc = f,
                                           !.calls = Append(@, [name |-> f.name, out |-> Running])]
    /\ UNCHANGED <<runVars, regVars, nameVars, schemaVars, lateVars>>

\* the child's tool returns; the child's Run sends the result, or the error, to its model
ChildExecuteReturn(out) ==
    /\ child.pc = "DispatchingTool"
    /\ child' = [child EXCEPT
           !.pc = "AwaitingModel",
           !.calls = [@ EXCEPT ![Len(@)].out = out],
           !.sent = Append(@,
                       IF out.state = "err"
                       THEN Sending(FunctionResponse(child.fc.name, ErrorResponse(out.val)),
                                    ChildModelTools, "toolError")
                       ELSE Sending(FunctionResponse(child.fc.name, ResultResponse(out.val)),
                                    ChildModelTools, "toolResult")),
           !.resp = NoResp,
           !.fc = NoCall]
    /\ UNCHANGED <<runVars, regVars, nameVars, schemaVars, lateVars>>

\* the child after its Run has returned: the Tools of its model stay
ChildReturned == [NoChild EXCEPT !.shared = child.shared, !.modelTools = child.modelTools]

\* a plausible slip: the child's error is returned by the parent's Run
SubAgentReturnFatal ==
    /\ pc = "DispatchingTool"
    /\ child.pc \in {"Done", "Failed"}
    /\ IF child.pc = "Done"
       THEN ExecuteReturnBody(ExecOk(SubAgentResult(child.result)))
       ELSE /\ pc' = "Failed"
            /\ result' = ""
            /\ err' = SubAgentFailure(child.err).msg
            /\ UNCHANGED <<tools, modelTools, sent, resp, fc, tool, looked, calls, startTools>>
    /\ child' = ChildReturned
    /\ UNCHANGED <<regVars, nameVars, schemaVars, lateVars>>

\* a plausible slip: subAgent.Run is started in the background and Execute returns what
\* the child has so far
SubAgentReturnEarly ==
    /\ pc = "DispatchingTool"
    /\ child.pc # "Idle"
    /\ ExecuteReturnBody(IF child.pc = "Failed"
                         THEN ExecErr(SubAgentFailure(child.err))
                         ELSE ExecOk(SubAgentResult(child.result)))
    /\ child' = ChildReturned
    /\ UNCHANGED <<regVars, nameVars, schemaVars, lateVars>>

\* subAgent.Run has returned: Execute returns {"result": result}, or the wrapped error,
\* and the parent's Run sends it to its model
SubAgentReturn ==
    /\ pc = "DispatchingTool"
    /\ child.pc \in {"Done", "Failed"}
    /\ ExecuteReturnBody(IF child.pc = "Done"
                         THEN ExecOk(SubAgentResult(child.result))
                         ELSE ExecErr(SubAgentFailure(child.err)))
    /\ child' = ChildReturned
    /\ UNCHANGED <<regVars, nameVars, schemaVars, lateVars>>

NextSub ==
    \/ \E p \in Prompts : \E d \in FuncDecls(tools) : RunStart(p, d)
    \/ \E r \in SubResponses : SendOk(r)
    \/ SendFail
    \/ ProcessResponse
    \/ \E d \in FuncDecls(ChildRegistry) : SubAgentExecute(d)
    \/ \E r \in ChildResponses : ChildSendOk(r)
    \/ ChildSendFail
    \/ ChildProcessResponse
    \/ \E o \in Outcomes : ChildExecuteReturn(o)
    \/ SubAgentReturn
    \/ Return

SpecSub == InitSub /\ [][NextSub]_vars

----------------------------------------------------------------------------
\* The package-level client and default model: Setup, Close and NewAgent.

MaxAgents == 2

ModelNames == {"m1", "m2"}
\* Config: ProjectID and Location given or not, ModelName, whether one of Temperature,
\* TopP and MaxOutputTokens is given, and whether vtx.NewClient fails
Configs ==
    [ids : BOOLEAN, modelName : ModelNames \cup {""}, gen : BOOLEAN, clientFails : BOOLEAN]
NoConfig == [ids |-> FALSE, modelName |-> "", gen |-> FALSE, clientFails |-> FALSE]
\* AgentConfig.Model
AgentConfigs == [model : ModelNames \cup {""}]

\* a *vtx.GenerativeModel: the global default model, or one made for the agent
GlobalModel(n) == [global |-> TRUE, name |-> n]
NamedModel(n) == [global |-> FALSE, name |-> n]
NoAgent == [model |-> [global |-> FALSE, name |-> "<nil>"], tools |-> EmptyRegistry]

\* before Setup: globalClient and globalModel are nil
NoSetup ==
    [client |-> FALSE, closed |-> FALSE, globalModel |-> "", globalGen |-> FALSE,
     agents |-> <<>>, last |-> [op |-> "", arg |-> ""], cfg |-> NoConfig, ret |-> "",
     agent |-> NoAgent]

\* the older NewAgent: no default model, the model is always made from config.Model
NewAgentNoDefault(s, config) ==
    IF ~s.client
    THEN [err |-> "global client is not initialized; call Setup() first", agent |-> NoAgent]
    ELSE [err |-> "", agent |-> [model |-> NamedModel(config.model), tools |-> EmptyRegistry]]

\* NewAgent(config): the error and the agent it returns
NewAgentResult(s, config) ==
    IF ~s.client
    THEN [err |-> "global client is not initialized; call Setup() first", agent |-> NoAgent]
    ELSE IF config.model = "" /\ s.globalModel = ""
    THEN [err |-> "no model specified and no global default set", agent |-> NoAgent]
    ELSE [err |-> "",
          agent |-> [model |-> IF config.model # "" THEN NamedModel(config.model)
                               ELSE GlobalModel(s.globalModel),
                     tools |-> EmptyRegistry]]

\* Setup(ctx, cfg): the error it returns
SetupError(s, cfg) ==
    IF ~cfg.ids THEN "projectID and location are required"
    ELSE IF s.client THEN ""
    ELSE IF cfg.clientFails THEN "failed to create vertex ai client"
    ELSE ""

InitSetup ==
    /\ AgentAtRest
    /\ child = NoChild
    /\ agentName = <<>>
    /\ toolName = Unset
    /\ structIn = <<>>
    /\ schemaOut = NoSchema
    /\ propOrder = Unset
    /\ mgr = NoSchema
    /\ runs = NoSchema
    /\ chain = <<>>
    /\ manager = NoSchema
    /\ task = NoSchema
    /\ setup = NoSetup

\* a plausible slip: no check for a client that exists already, so every valid
\* Setup makes a client and sets the default model again
SetupAgain(s, cfg) ==
    IF ~cfg.ids \/ cfg.clientFails THEN s
    ELSE [s EXCEPT !.client = TRUE,
                   !.closed = FALSE,
                   !.globalModel = IF cfg.modelName # "" THEN cfg.modelName ELSE @,
                   !.globalGen = IF cfg.modelName # "" THEN cfg.gen ELSE @]

\* globalClient and globalModel after Setup(ctx, cfg): set only when there was no client,
\* the ids are given and vtx.NewClient succeeded; the model only when cfg names one
AfterSetup(s, cfg) ==
    IF s.client \/ SetupError(s, cfg) # "" THEN s
    ELSE [s EXCEPT !.client = TRUE,
                   !.globalModel = IF cfg.modelName # "" THEN cfg.modelName ELSE @,
                   !.globalGen = IF cfg.modelName # "" THEN cfg.gen ELSE @]

Setup(cfg) ==
    /\ setup' = [AfterSetup(setup, cfg) EXCEPT
           !.last = [op |-> "Setup", arg |-> cfg.modelName],
           !.cfg = cfg,
           !.ret = SetupError(setup, cfg),
           !.agent = NoAgent]
    /\ UNCHANGED <<runVars, regVars, child, nameVars, schemaVars, runs, chain, manager, task>>

\* Close(): the client is closed; globalClient and globalModel stay set
Close ==
    /\ setup' = [setup EXCEPT !.closed = @ \/ setup.client,
                              !.last = [op |-> "Close", arg |-> ""],
                              !.ret = "",
                              !.agent = NoAgent]
    /\ UNCHANGED <<runVars, regVars, child, nameVars, schemaVars, runs, chain, manager, task>>

NewAgent(config) ==
    LET r == NewAgentResult(setup, config)
    IN /\ r.err = "" => Len(setup.agents) < MaxAgents
       /\ setup' = [setup EXCEPT
              !.agents = IF r.err = "" THEN Append(@, r.agent) ELSE @,
              !.last = [op |-> "NewAgent", arg |-> config.model],
              !.ret = r.err,
              !.agent = r.agent]
       /\ UNCHANGED <<runVars, regVars, child, nameVars, schemaVars, runs, chain, manager, task>>

NextSetup ==
    \/ \E cfg \in Configs : Setup(cfg)
    \/ Close
    \/ \E c \in AgentConfigs : NewAgent(c)

SpecSetup == InitSetup /\ [][NextSetup]_vars

----------------------------------------------------------------------------
\* AgentManager.NewAgent and Agent.NewSubagent. Agents are numbered in the order of
\* their creation; 0 stands for no agent.

MaxObjects == 3

AgentNames == {"Parent", "Child", "TestAgent"}
NoSubAgents == [n \in AgentNames |-> 0]
\* an AgentManager after Setup: agents = make(map[string]*Agent)
NewManager ==
    [agents |-> [n \in AgentNames |-> 0], objs |-> <<>>,
     last |-> [op |-> "", name |-> "", parent |-> 0]]

\* m.NewAgent(name, systemPrompt): a new agent, stored in m.agents under its name
AfterNewAgent(m, name) ==
    [m EXCEPT !.agents[name] = Len(m.objs) + 1,
              !.objs = Append(@, [name |-> name, subAgents |-> NoSubAgents])]

\* a plausible slip: the sub-agent is made without the manager's NewAgent
AfterNewSubagentLocal(m, parent, name) ==
    [m EXCEPT !.objs = [Append(@, [name |-> name, subAgents |-> NoSubAgents])
                           EXCEPT ![parent].subAgents[name] = Len(m.objs) + 1]]

\* a.NewSubagent(name, systemPrompt): a.manager.NewAgent, then a.subAgents[name]
AfterNewSubagent(m, parent, name) ==
    LET m1 == AfterNewAgent(m, name)
    IN [m1 EXCEPT !.objs[parent].subAgents[name] = Len(m1.objs)]

InitManager ==
    /\ AgentAtRest
    /\ child = NoChild
    /\ agentName = <<>>
    /\ toolName = Unset
    /\ structIn = <<>>
    /\ schemaOut = NoSchema
    /\ propOrder = Unset
    /\ mgr = NoSchema
    /\ runs = NoSchema
    /\ chain = <<>>
    /\ manager = NewManager
    /\ task = NoSchema
    /\ setup = NoSchema

ManagerNewAgent(name) ==
    /\ Len(manager.objs) < MaxObjects
    /\ manager' = [AfterNewAgent(manager, name)
                      EXCEPT !.last = [op |-> "NewAgent", name |-> name, parent |-> 0]]
    /\ UNCHANGED <<runVars, regVars, child, nameVars, schemaVars, runs, chain, task, setup>>

NewSubagent(parent, name) ==
    /\ Len(manager.objs) < MaxObjects
    /\ parent \in DOMAIN manager.objs
    /\ manager' = [AfterNewSubagent(manager, parent, name)
                      EXCEPT !.last = [op |-> "NewSubagent", name |-> name, parent |-> parent]]
    /\ UNCHANGED <<runVars, regVars, child, nameVars, schemaVars, runs, chain, task, setup>>

NextManager ==
    \/ \E n \in AgentNames : ManagerNewAgent(n)
    \/ \E p \in 1..MaxObjects : \E n \in AgentNames : NewSubagent(p, n)

SpecManager == InitManager /\ [][NextManager]_vars

----------------------------------------------------------------------------
\* Agent.ExecuteTask of the manager-based Agent, with one tool, t1, registered by
\* RegisterTool; the model can also ask for t2, which is not registered.

\* the args of a call: a JSON object that json.Unmarshal decodes into the tool's
\* parameter struct, or one that it does not (a string where the struct has an int)
TaskArgs == {"decodable", "undecodable"}
TaskCall(n, a) == [kind |-> "FunctionCall", text |-> "", name |-> n, args |-> a]
TaskPartSeqs ==
    {<<>>, <<TextPart("a")>>, <<TextPart("a"), TextPart("b")>>,
     <<TextPart("a"), TaskCall("t1", "decodable")>>, <<TaskCall("t2", "decodable")>>}
    \cup {<<TaskCall("t1", a)>> : a \in TaskArgs}
TaskResponses ==
    {[shape |-> s, parts |-> <<>>] : s \in {"noCandidates", "nilContent"}}
    \cup {[shape |-> "content", parts |-> ps] : ps \in TaskPartSeqs}

\* what the registered function returns: (s, nil) or (s, err)
FuncReturns == {[s |-> "r1", err |-> ""], [s |-> "", err |-> "boom"]}

RegisteredAgent ==
    registerToolInternal(NewManagedAgent, "t1", SchemaOk(EmptyMap, <<>>), "wrapperFunc")
\* the agents ExecuteTask is called on: no tool, t1, or t1 and t2 registered
TaskAgents ==
    {NewManagedAgent, RegisteredAgent,
     registerToolInternal(RegisteredAgent, "t2", SchemaOk(EmptyMap, <<>>), "wrapperFunc")}

NoTask ==
    [pc |-> "Idle", sent |-> <<>>, resps |-> <<>>, fc |-> NoCall, invoked |-> <<>>,
     out |-> "", result |-> "", err |-> ""]

\* the last lines of ExecuteTask: the first part of the response when it is a Text
HasFirstPart(r) == r.shape = "content" /\ Len(r.parts) > 0
FinalText(t, r) ==
    IF HasFirstPart(r) /\ r.parts[1].kind = "Text"
    THEN [t EXCEPT !.pc = "Done", !.result = r.parts[1].text, !.err = ""]
    ELSE [t EXCEPT !.pc = "Failed", !.result = "", !.err = "no text response from model"]

InitTask ==
    /\ AgentAtRest
    /\ child = NoChild
    /\ agentName = <<>>
    /\ toolName = Unset
    /\ structIn = <<>>
    /\ schemaOut = NoSchema
    /\ propOrder = Unset
    /\ mgr \in TaskAgents
    /\ runs = NoSchema
    /\ chain = <<>>
    /\ manager = NoSchema
    /\ task = NoTask
    /\ setup = NoSchema

TaskUnchanged ==
    UNCHANGED <<runVars, regVars, child, nameVars, schemaVars, runs, chain, manager, setup>>

\* ExecuteTask up to its first SendMessage
TaskStart(prompt) ==
    /\ task.pc = "Idle"
    /\ task' = [NoTask EXCEPT !.pc = "AwaitingModel", !.sent = <<TextMsg(prompt)>>]
    /\ TaskUnchanged

\* SendMessage fails: ExecuteTask returns the wrapped error
TaskSendFail ==
    /\ task.pc = "AwaitingModel"
    /\ task' = [task EXCEPT
           !.pc = "Failed",
           !.err = IF Len(task.sent) = 1 THEN "failed to send message to Gemini"
                   ELSE "failed to send tool response to Gemini"]
    /\ TaskUnchanged

\* SendMessage returns a response
TaskSendOk(r) ==
    /\ task.pc = "AwaitingModel"
    /\ task' = [task EXCEPT !.pc = IF Len(task.sent) = 1 THEN "ProcessingFirst"
                                   ELSE "ProcessingFinal",
                            !.resps = Append(@, r)]
    /\ TaskUnchanged

\* the first response: Candidates[0].Content.Parts is read without a nil check of
\* Content; a FunctionCall in the first part is looked up in toolFuncs and called
TaskProcessFirst ==
    /\ task.pc = "ProcessingFirst"
    /\ LET r == task.resps[1] IN
       task' = IF r.shape = "nilContent" THEN [task EXCEPT !.pc = "Panicked"]
               ELSE IF ~(HasFirstPart(r) /\ r.parts[1].kind = "FunctionCall")
               THEN FinalText(task, r)
               ELSE IF mgr.toolFuncs[r.parts[1].name] = NoFunc
               THEN [task EXCEPT !.pc = "Failed", !.fc = r.parts[1],
                                 !.err = "tool '" \o r.parts[1].name \o "' not found"]
               ELSE [task EXCEPT !.pc = "CallingTool", !.fc = r.parts[1]]
    /\ TaskUnchanged

\* tool(string(argsJSON)) returns: the wrapper of RegisterTool decodes the args and,
\* when that succeeds, calls the function; ExecuteTask returns on an error and sends the
\* result otherwise
TaskToolReturn(ret) ==
    /\ task.pc = "CallingTool"
    /\ task' =
         IF task.fc.args = "undecodable"
         THEN [task EXCEPT
                  !.pc = "Failed",
                  !.out = "decodeError",
                  !.err = "tool '" \o task.fc.name \o "' execution failed: "
                              \o "failed to unmarshal args into struct"]
         ELSE IF ret.err # ""
         THEN [task EXCEPT
                  !.pc = "Failed",
                  !.invoked = Append(@, task.fc.args),
                  !.out = "executionError",
                  !.err = "tool '" \o task.fc.name \o "' execution failed: " \o ret.err]
         ELSE [task EXCEPT
                  !.pc = "AwaitingModel",
                  !.invoked = Append(@, task.fc.args),
                  !.out = ret.s,
                  !.sent = Append(@, FunctionResponse(task.fc.name, [result |-> ret.s]))]
    /\ TaskUnchanged

\* the response to the tool result: its first part when it is a Text
TaskProcessFinal ==
    /\ task.pc = "ProcessingFinal"
    /\ task' = IF task.resps[2].shape = "nilContent" THEN [task EXCEPT !.pc = "Panicked"]
               ELSE FinalText(task, task.resps[2])
    /\ TaskUnchanged

\* ExecuteTask has returned, or the goroutine has panicked
TaskReturn ==
    /\ task.pc \in {"Done", "Failed", "Panicked"}
    /\ task' = NoTask
    /\ TaskUnchanged

NextTask ==
    \/ \E p \in Prompts : TaskStart(p)
    \/ TaskSendFail
    \/ \E r \in TaskResponses : TaskSendOk(r)
    \/ TaskProcessFirst
    \/ \E ret \in FuncReturns : TaskToolReturn(ret)
    \/ TaskProcessFinal
    \/ TaskReturn

SpecTask == InitTask /\ [][NextTask]_vars

----------------------------------------------------------------------------
\* Sub-agent tools that lead back to an agent that is already running. Agent A has
\* registered NewSubAgentTool(A) and NewSubAgentTool(B), agent B has registered
\* NewSubAgentTool(A). chain is the stack of the Run calls in progress, the innermost
\* last: Execute of a sub-agent tool calls subAgent.Run on the caller's goroutine. Of
\* each session only the last message handed to SendMessage is kept.

MaxDepth == 3

CycleAgents == {"A", "B"}
CycleToolName(a) == Str(sanitizedName(<<a>>))
\* the sub-agents each agent has a tool for
CycleSubAgents == [a \in CycleAgents |-> IF a = "A" THEN {"A", "B"} ELSE {"A"}]
CycleRegistry(a) ==
    [n \in {CycleToolName(s) : s \in CycleSubAgents[a]} |->
        [schema |-> n, exec |-> CHOOSE s \in CycleSubAgents[a] : CycleToolName(s) = n]]
CycleCall(n) ==
    [kind |-> "FunctionCall", text |-> "", name |-> n, args |-> PromptArg("string", "ping")]
CycleResponses ==
    {[shape |-> "content", parts |-> ps] :
        ps \in {<<TextPart("a")>>} \cup {<<CycleCall(n)>> : n \in {"A", "B", "zz"}}}
Frame(a, p) ==
    [agent |-> a, pc |-> "AwaitingModel", resp |-> NoResp, fc |-> NoCall,
     last |-> TextMsg(p)]
\* the first FunctionCall of the response is a call of a registered sub-agent tool
CallsSubAgent(a, r) ==
    /\ FirstFunctionCall(r.parts) # 0
    /\ r.parts[FirstFunctionCall(r.parts)].name \in DOMAIN CycleRegistry(a)
\* the error Execute returns when subAgent.Run failed
CycleFailure(a, e) == [msg |-> "sub-agent '" \o a \o "' failed: " \o e]

InitCycle ==
    /\ AgentAtRest
    /\ child = NoChild
    /\ agentName = <<>>
    /\ toolName = Unset
    /\ structIn = <<>>
    /\ schemaOut = NoSchema
    /\ propOrder = Unset
    /\ mgr = NoSchema
    /\ runs = NoSchema
    /\ chain = <<>>
    /\ manager = NoSchema
    /\ task = NoSchema
    /\ setup = NoSchema

CycleUnchanged ==
    UNCHANGED <<runVars, regVars, child, nameVars, schemaVars, runs, manager, task, setup>>

Top == chain[Len(chain)]
SetTop(f) == [chain EXCEPT ![Len(chain)] = f]
\* the Run below the innermost one gets the outcome of Execute and sends it to its model
Resume(c, payload) ==
    IF c = <<>> THEN c
    ELSE [c EXCEPT ![Len(c)] =
             [@ EXCEPT !.pc = "AwaitingModel",
                       !.last = FunctionResponse(c[Len(c)].fc.name, payload)]]
Pop == SubSeq(chain, 1, Len(chain) - 1)

\* the caller's Run(ctx, prompt) of an agent, up to its first SendMessage
CycleRunStart(a, p) ==
    /\ chain = <<>>
    /\ chain' = <<Frame(a, p)>>
    /\ CycleUnchanged

\* SendMessage of the innermost Run returns a response
CycleSendOk(r) ==
    /\ chain # <<>>
    /\ Top.pc = "AwaitingModel"
    /\ (Len(chain) >= MaxDepth) => ~CallsSubAgent(Top.agent, r)
    /\ chain' = SetTop([Top EXCEPT !.pc = "ProcessingResponse", !.resp = r])
    /\ CycleUnchanged

\* SendMessage of the innermost Run fails: Run returns the error, and Execute of the
\* calling Run wraps it
CycleSendFail ==
    /\ chain # <<>>
    /\ Top.pc = "AwaitingModel"
    /\ chain' = Resume(Pop, ErrorResponse(CycleFailure(Top.agent, "failed to send message")))
    /\ CycleUnchanged

\* the innermost Run looks at the response: without a FunctionCall it returns the
\* text; a call of a tool that is not registered makes it return an error; a call of
\* a sub-agent tool runs Execute, which calls subAgent.Run without looking at the
\* Run calls in progress
CycleProcessResponse ==
    /\ chain # <<>>
    /\ Top.pc = "ProcessingResponse"
    /\ LET i == FirstFunctionCall(Top.resp.parts) IN
       chain' =
         IF i = 0
         THEN Resume(Pop, SubAgentResult(responseToText(Top.resp)))
         ELSE IF Top.resp.parts[i].name \notin DOMAIN CycleRegistry(Top.agent)
         THEN Resume(Pop, ErrorResponse(CycleFailure(Top.agent,
                                                     "model requested unknown tool")))
         ELSE Append(SetTop([Top EXCEPT !.pc = "Executing", !.fc = Top.resp.parts[i]]),
                     Frame(CycleRegistry(Top.agent)[Top.resp.parts[i].name].exec,
                           Top.resp.parts[i].args.prompt.val))
    /\ CycleUnchanged

NextCycle ==
    \/ \E a \in CycleAgents, p \in Prompts : CycleRunStart(a, p)
    \/ \E r \in CycleResponses : CycleSendOk(r)
    \/ CycleSendFail
    \/ CycleProcessResponse

SpecCycle == InitCycle /\ [][NextCycle]_vars

----------------------------------------------------------------------------
\* Run calls in progress at the same time. Agent A has registered t1, agent B has
\* registered t2 and agent C has registered nothing. An agent made with config.Model == "" holds the pointer globalModel,
\* an agent made with a model name holds a GenerativeModel of its own. Each Run has its
\* own ChatSession; a session reads the Tools of its model when a message is sent.

Goroutines == {1, 2}
ConcAgents == {"A", "B", "C"}
ConcRegistry(a) ==
    IF a = "C" THEN EmptyRegistry
    ELSE RegisterAll(EmptyRegistry,
                     <<[schema |-> IF a = "A" THEN "t1" ELSE "t2", exec |-> "f"]>>)
\* the model each agent holds: the global one for all, or one of its own
Bindings ==
    {[a \in ConcAgents |-> "globalModel"], [a \in ConcAgents |-> "model" \o a]}
ModelIds == {"globalModel"} \cup {"model" \o a : a \in ConcAgents}
ConcResponses ==
    {[shape |-> "content", parts |-> ps] :
        ps \in {<<TextPart("a")>>} \cup {<<FunctionCall(n)>> : n \in ToolNames}}
NoRun ==
    [agent |-> "", pc |-> "Idle", adv |-> <<>>, resp |-> NoResp, fc |-> NoCall,
     msg |-> TextMsg("")]

InitConc ==
    /\ AgentAtRest
    /\ child = NoChild
    /\ agentName = <<>>
    /\ toolName = Unset
    /\ structIn = <<>>
    /\ schemaOut = NoSchema
    /\ propOrder = Unset
    /\ mgr = NoSchema
    /\ \E b \in Bindings :
           runs = [model |-> b, tools |-> [m \in ModelIds |-> <<>>],
                   run |-> [g \in Goroutines |-> NoRun]]
    /\ chain = <<>>
    /\ manager = NoSchema
    /\ task = NoSchema
    /\ setup = NoSchema

ConcUnchanged ==
    UNCHANGED <<runVars, regVars, child, nameVars, schemaVars, chain, manager, task, setup>>

\* Run's first block on goroutine g: a.model.Tools is replaced by the declarations of
\* the agent's registry, and the session is started
ConcRunStart(g, a, p, decls) ==
    /\ runs.run[g].pc = "Idle"
    /\ decls \in FuncDecls(ConcRegistry(a))
    /\ runs' = [runs EXCEPT
           !.tools[runs.model[a]] = ModelToolsForRun(ConcRegistry(a), @, decls),
           !.run[g] = [NoRun EXCEPT !.agent = a, !.pc = "Sending", !.msg = TextMsg(p)]]
    /\ ConcUnchanged

\* session.SendMessage on goroutine g: the request carries the Tools the model of the
\* agent has at this moment
ConcSend(g) ==
    /\ runs.run[g].pc = "Sending"
    /\ Len(runs.run[g].adv) <= MaxRoundTrips
    /\ runs' = [runs EXCEPT
           !.run[g] = [@ EXCEPT !.pc = "AwaitingModel",
                                !.adv = Append(@, runs.tools[runs.model[runs.run[g].agent]])]]
    /\ ConcUnchanged

\* the model answers
ConcSendOk(g, r) ==
    /\ runs.run[g].pc = "AwaitingModel"
    /\ runs' = [runs EXCEPT !.run[g] = [@ EXCEPT !.pc = "ProcessingResponse", !.resp = r]]
    /\ ConcUnchanged

\* the send fails: Run returns the error
ConcSendFail(g) ==
    /\ runs.run[g].pc = "AwaitingModel"
    /\ runs' = [runs EXCEPT !.run[g] = [@ EXCEPT !.pc = "Failed"]]
    /\ ConcUnchanged

\* the body of Run's loop: the first FunctionCall is looked up in the registry of the
\* agent that runs, its Execute is called and the result is the next message
ConcProcessResponse(g, out) ==
    /\ runs.run[g].pc = "ProcessingResponse"
    /\ LET r == runs.run[g]
           i == FirstFunctionCall(r.resp.parts)
       IN runs' = [runs EXCEPT !.run[g] =
              IF i = 0 THEN [r EXCEPT !.pc = "Done"]
              ELSE IF ConcRegistry(r.agent)[r.resp.parts[i].name] = NoTool
              THEN [r EXCEPT !.pc = "Failed", !.fc = r.resp.parts[i]]
              ELSE [r EXCEPT !.pc = "Sending", !.fc = r.resp.parts[i],
                             !.msg = FunctionResponse(r.resp.parts[i].name,
                                        IF out.state = "ok" THEN out.val
                                        ELSE ErrorResponse(out.val))]]
    /\ ConcUnchanged

\* Run has returned on goroutine g
ConcReturn(g) ==
    /\ runs.run[g].pc \in {"Done", "Failed"}
    /\ runs' = [runs EXCEPT !.run[g] = NoRun]
    /\ ConcUnchanged

NextConc ==
    \E g \in Goroutines :
        \/ \E a \in ConcAgents, p \in Prompts :
               \E decls \in FuncDecls(ConcRegistry(a)) : ConcRunStart(g, a, p, decls)
        \/ ConcSend(g)
        \/ \E r \in ConcResponses : ConcSendOk(g, r)
        \/ ConcSendFail(g)
        \/ \E out \in Outcomes : ConcProcessResponse(g, out)
        \/ ConcReturn(g)

SpecConc == InitConc /\ [][NextConc]_vars

\* the same agents run one Run at a time, on one goroutine
NextSeq ==
    \/ \E a \in ConcAgents, p \in Prompts :
           \E decls \in FuncDecls(ConcRegistry(a)) : ConcRunStart(1, a, p, decls)
    \/ ConcSend(1)
    \/ \E r \in ConcResponses : ConcSendOk(1, r)
    \/ ConcSendFail(1)
    \/ \E out \in Outcomes : ConcProcessResponse(1, out)
    \/ ConcReturn(1)

SpecSeq == InitConc /\ [][NextSeq]_vars

----------------------------------------------------------------------------
\* Properties of Agent.Run.

HasCall(r) == r.shape = "content" /\ \E i \in DOMAIN r.parts : r.parts[i].kind = "FunctionCall"

\* part i is the first function call of the parts
IsFirstCall(parts, i) ==
    /\ i \in DOMAIN parts
    /\ parts[i].kind = "FunctionCall"
    /\ \A j \in 1..(i - 1) : parts[j].kind # "FunctionCall"

\* the texts of parts 1..k joined from the left
RECURSIVE JoinTexts(_, _)
JoinTexts(parts, k) ==
    IF k = 0 THEN ""
    ELSE JoinTexts(parts, k - 1) \o (IF parts[k].kind = "Text" THEN parts[k].text ELSE "")

\* a response with no text and no function call
EmptyResponse(r) ==
    \/ r.shape \in {"nilCandidates", "noCandidates", "nilContent"}
    \/ r.shape = "content" /\ r.parts = <<>>

Finished(cs) == {i \in DOMAIN cs : cs[i].out.state # "running"}
ToolResults(ms) == {i \in DOMAIN ms : ms[i].msg.kind = "FunctionResponse"}

\* C1: a tool-call request naming a tool that is not in the registry does not make Run
\* fail; a ToolResult with an error field is sent back under that name and the loop
\* goes on.  (The code returns "model requested unknown tool" instead.)
C1_UnknownToolContained ==
    \A i \in DOMAIN looked :
        ~looked[i].found =>
            /\ pc # "Failed"
            /\ Len(sent) >= i + 1
            /\ sent[i + 1].msg.kind = "FunctionResponse"
            /\ sent[i + 1].msg.name = looked[i].name
            /\ "error" \in DOMAIN sent[i + 1].msg.response

\* C2, in every state: each Execute call that returned an error has been answered by
\* the message after the one that asked for it, a FunctionResponse under the requested
\* name whose payload is {error: the error's message}; one FunctionResponse exists per
\* finished call; and no error Run returns comes from an executor
C2_Inv ==
    /\ \A i \in DOMAIN calls :
          calls[i].out.state = "err" =>
              /\ Len(sent) >= i + 1
              /\ sent[i + 1].msg =
                    FunctionResponse(calls[i].name, [error |-> calls[i].out.val.msg])
    /\ Cardinality(ToolResults(sent)) = Cardinality(Finished(calls))
    /\ pc = "Failed" =>
          err \in {"failed to send message", "failed to send tool error response",
                   "failed to send tool result", "model requested unknown tool"}

\* C2, in every step: the step in which Execute returns an error sends exactly one
\* message and leaves Run waiting for the model, and the model's answer is inspected next
C2_Step ==
    /\ (pc = "DispatchingTool" /\ calls' # calls /\ Last(calls').out.state = "err") =>
          /\ pc' = "AwaitingModel"
          /\ Len(sent') = Len(sent) + 1
          /\ SubSeq(sent', 1, Len(sent)) = sent
    /\ (pc = "AwaitingModel" /\ Last(sent').answer = "ok") =>
          /\ pc' = "ProcessingResponse"
          /\ resp' \in Responses

\* C2: an executor's error does not abort Run: exactly one ToolResult {error: message}
\* is sent back under the requested tool's name and the loop continues with the
\* model's next response
C2_ExecutorErrorContained == [](C2_Inv) /\ [][C2_Step]_vars

\* C2 witness: an executor error was sent back and the model's answer to it is inspected
C2_Witness ==
    /\ pc = "ProcessingResponse"
    /\ calls # <<>>
    /\ Last(calls).out.state = "err"
    /\ Last(sent).msg = FunctionResponse(Last(calls).name, [error |-> "boom"])

\* C3, in every state: a SendMessage that failed is the last one of the run; Run has
\* failed with the error of that send and an empty result; no tool is executing
C3_Inv ==
    \A i \in DOMAIN sent :
        sent[i].answer = "error" =>
            /\ pc = "Failed"
            /\ i = Len(sent)
            /\ result = ""
            /\ err = (CASE sent[i].site = "prompt" -> "failed to send message"
                        [] sent[i].site = "toolError" -> "failed to send tool error response"
                        [] sent[i].site = "toolResult" -> "failed to send tool result")
            /\ Finished(calls) = DOMAIN calls
            /\ Len(calls) = i - 1

\* C3, in every step: after a failure the run only returns to its caller
C3_Step == pc = "Failed" => (pc' = "Idle" /\ sent' = <<>> /\ calls' = <<>>)

\* C3: a failure of session.SendMessage, at any of the three sends, makes Run return a
\* failure at once, with no dispatch and no send after it in that run
C3_TransportFatal == [](C3_Inv) /\ [][C3_Step]_vars

\* C3 witness: the send of a tool's error failed and Run has failed
C3_Witness ==
    /\ pc = "Failed"
    /\ Len(sent) = 2
    /\ Last(sent).site = "toolError"
    /\ Last(sent).answer = "error"

\* C4: once the number of round trips with the model exceeds the configured maximum,
\* Run has terminated Failed with TurnLimitExceeded.  (The code has no such maximum.)
C4_TurnLimitEnforced ==
    Len(sent) > TurnLimit => (pc = "Failed" /\ err = "TurnLimitExceeded")

\* C5, in every state: the calls made are the names looked up, in order, one answer
\* is sent per call under the call's name, and a tool being executed is the first
\* function call of the response
C5_Inv ==
    /\ Len(calls) <= Len(looked)
    /\ \A i \in DOMAIN calls : looked[i].found /\ looked[i].name = calls[i].name
    /\ \A i \in ToolResults(sent) : i >= 2 /\ sent[i].msg.name = calls[i - 1].name
    /\ pc = "DispatchingTool" =>
          /\ \E i \in DOMAIN resp.parts : IsFirstCall(resp.parts, i) /\ fc = resp.parts[i]
          /\ Last(calls).name = fc.name

\* C5, in every step: inspecting a response looks up at most one name, the name of its
\* first function call, and executes at most that tool; no other step looks up or
\* starts a tool
C5_Step ==
    /\ (pc = "ProcessingResponse" /\ pc' # pc) =>
          IF HasCall(resp)
          THEN \E i \in DOMAIN resp.parts :
                  /\ IsFirstCall(resp.parts, i)
                  /\ Len(looked') = Len(looked) + 1
                  /\ SubSeq(looked', 1, Len(looked)) = looked
                  /\ Last(looked').name = resp.parts[i].name
                  /\ \/ calls' = calls
                     \/ calls' = Append(calls, [name |-> resp.parts[i].name, out |-> Running])
          ELSE looked' = looked /\ calls' = calls
    /\ pc # "ProcessingResponse" =>
          /\ looked' = looked \/ pc' = "Idle"
          /\ Len(calls') = Len(calls) \/ pc' = "Idle"

\* C5: of several function calls in one response only the first, in part order, is
\* dispatched; the later ones are never looked up, executed or answered
C5_SingleCallPerTurn == [](C5_Inv) /\ [][C5_Step]_vars

\* C5 witness: a response with two different function calls, the first being executed
C5_Witness ==
    /\ pc = "DispatchingTool"
    /\ resp.parts = <<FunctionCall("t2"), FunctionCall("t1")>>
    /\ looked = <<[name |-> "t2", found |-> TRUE]>>
    /\ calls = <<[name |-> "t2", out |-> Running]>>

\* C6, in every state: Run that ended Done returns no error and the texts of the last
\* response's parts joined in part order; [Text("a"), Text("b")] gives "ab"
C6_Inv ==
    /\ pc = "Done" =>
          /\ ~HasCall(resp)
          /\ err = ""
          /\ result = JoinTexts(resp.parts, Len(resp.parts))
          /\ Last(sent).answer = "ok"
    /\ (pc = "Done" /\ resp.parts = <<TextPart("a"), TextPart("b")>>) => result = "ab"

\* C6, in every step: a response without a function call ends the run Done, and after
\* Done the run only returns to its caller
C6_Step ==
    /\ (pc = "ProcessingResponse" /\ ~HasCall(resp) /\ pc' # pc) => pc' = "Done" /\ sent' = sent
    /\ pc = "Done" => (pc' = "Idle" /\ sent' = <<>>)

\* C6: a response with no function call ends Run successfully with the concatenation
\* of its Text parts in part order, and nothing is sent afterwards
C6_TerminationOnText == [](C6_Inv) /\ [][C6_Step]_vars

\* C6 witness: Run ended Done on [Text("a"), Text("b")] with "ab"
C6_Witness ==
    /\ pc = "Done"
    /\ resp.parts = <<TextPart("a"), TextPart("b")>>
    /\ result = "ab"

\* C7, in every state: a finished run whose last response held nothing ended Done with
\* the empty string and no error
C7_Inv ==
    (pc \in {"Done", "Failed"} /\ EmptyResponse(resp)) =>
        (pc = "Done" /\ result = "" /\ err = "")

\* C7, in every step: inspecting a response that holds nothing ends the run Done
C7_Step ==
    (pc = "ProcessingResponse" /\ EmptyResponse(resp) /\ pc' # pc) =>
        (pc' = "Done" /\ result' = "" /\ err' = "")

\* C7: a response with no text and no function call (no candidates, nil content or no
\* parts) ends Run Done with the empty string and no error, never as a failure
C7_EmptyResponseIsDone == [](C7_Inv) /\ [][C7_Step]_vars

\* C7 witness: Run ended Done on a response whose candidate has no content
C7_Witness ==
    /\ pc = "Done"
    /\ resp.shape = "nilContent"
    /\ result = ""
    /\ err = ""

\* C8: each successful Execute is answered by one FunctionResponse carrying the tool's
\* result under the requested name; every run has sent one message more than it has
\* finished calls; so a run that ended Done after k tool-call responses made k
\* dispatches and k+1 sends and returns the final response's text
C8_SuccessLoop ==
    /\ \A i \in DOMAIN calls :
          calls[i].out.state = "ok" =>
              /\ Len(sent) >= i + 1
              /\ sent[i + 1].msg = FunctionResponse(calls[i].name, calls[i].out.val)
              /\ sent[i + 1].site = "toolResult"
    /\ pc # "Idle" => Len(sent) = Cardinality(Finished(calls)) + 1
    /\ pc = "Done" =>
          /\ Len(looked) = Len(calls)
          /\ Finished(calls) = DOMAIN calls
          /\ Len(sent) = Len(calls) + 1
          /\ \A i \in DOMAIN sent : sent[i].answer = "ok"
          /\ err = ""
          /\ result = JoinTexts(resp.parts, Len(resp.parts))

\* C8 witness: two successful tool calls, then a text-only response: 2 dispatches, 3 sends
C8_Witness ==
    /\ pc = "Done"
    /\ Len(calls) = 2
    /\ \A i \in DOMAIN calls : calls[i].out.state = "ok"
    /\ Len(sent) = 3
    /\ resp.parts = <<TextPart("b")>>
    /\ result = "b"

\* C9, for the runs of one agent: every tool that was in the registry when Run was
\* called is among the declarations the model advertises with the initial prompt
C9_AdvertisedBeforePrompt ==
    pc # "Idle" =>
        /\ sent[1].site = "prompt"
        /\ Registered(startTools) \subseteq Range(sent[1].tools)

\* C9 witness: a run called with both tools registered has sent its prompt, and the
\* model advertised both with it
C9_Witness ==
    /\ pc = "AwaitingModel"
    /\ Len(sent) = 1
    /\ Registered(startTools) = ToolNames
    /\ Range(sent[1].tools) = ToolNames

\* C10: a tool registered after Run has started is not visible in that run: it is not
\* advertised with any message of the run and it is never dispatched by the run.  (The
\* code looks the requested name up in the live registry.)
C10_LateToolInvisible ==
    pc # "Idle" =>
        /\ \A i \in DOMAIN sent : Range(sent[i].tools) \subseteq Registered(startTools)
        /\ \A i \in DOMAIN calls : calls[i].name \in Registered(startTools)

----------------------------------------------------------------------------
\* C15: registering a tool whose name is not registered inserts it and registering one
\* whose name is registered replaces it: for every name the registry holds the tool
\* (schema and executor) most recently given to RegisterTools under that name, and the
\* entry of a name that a call does not mention is the one it had before the call.
C15_RegistryHoldsLastRegistered == tools = lastReg

\* a tool was replaced during a run while the other registered tool stayed as it was
C15_Witness ==
    /\ startTools["t1"] # NoTool
    /\ tools["t1"] # NoTool
    /\ tools["t1"] # startTools["t1"]
    /\ tools["t2"] # NoTool
    /\ tools["t2"] = startTools["t2"]

\* C16: the tool specs that go out with the prompt at the start of a Run are listed in
\* the order in which the tools were registered.
C16_SpecsInRegistrationOrder ==
    (pc = "AwaitingModel" /\ Len(sent) = 1 /\ Registered(tools) # {})
        => sent[1].tools = regOrder

----------------------------------------------------------------------------
----------------------------------------------------------------------------
\* Properties of the sub-agent tool.

\* the call the parent dispatches carries a prompt that is a string
StringPrompt(call) == call.args.prompt.present /\ call.args.prompt.type = "string"
\* the child's Run returns in this step
ChildReturns == child.pc \in {"Done", "Failed"} /\ child'.pc = "Idle"

\* C11: when the parent's model asks for the sub-agent tool with a string prompt, the
\* child's Run is called with exactly that prompt; when the child's Run ends Done with
\* a text, the parent sends its model a tool result under the child's sanitized name
\* with the payload {result: text} and goes on with its loop.
C11_Inv ==
    child.pc # "Idle" =>
        /\ pc = "DispatchingTool"
        /\ fc.name = Str(sanitizedName(agentName))
        /\ StringPrompt(fc)
        /\ child.sent[1].msg = TextMsg(fc.args.prompt.val)
        /\ child.sent[1].site = "prompt"

C11_Step ==
    (ChildReturns /\ child.pc = "Done") =>
        /\ pc' = "AwaitingModel"
        /\ sent' = Append(sent, Last(sent'))
        /\ Last(sent').msg
               = FunctionResponse(Str(sanitizedName(agentName)), [result |-> child.result])
        /\ Last(sent').site = "toolResult"
        /\ Last(calls').out = ExecOk([result |-> child.result])

C11_SubAgentResultReturned == [](C11_Inv) /\ [][C11_Step]_vars

\* the child's Run has set the Tools of its model and answered "a", and the parent has
\* sent {result: "a"} under the name "a_B"
C11_Witness ==
    /\ pc = "AwaitingModel"
    /\ Len(sent) = 2
    /\ sent[2].msg = FunctionResponse("a_B", [result |-> "a"])
    /\ child.pc = "Idle"
    /\ ChildModelTools = <<"c1">>

\* C12: a Run of the child that ends Failed, whatever the reason, does not make the
\* parent's Run fail: the sub-agent tool returns an error, the parent sends its model a
\* tool result with an error field, and the parent's loop goes on.
C12_Step ==
    /\ child' # child => pc' # "Failed"
    /\ (ChildReturns /\ child.pc = "Failed") =>
           /\ pc' = "AwaitingModel"
           /\ sent' = Append(sent, Last(sent'))
           /\ Last(sent').msg
                  = FunctionResponse(fc.name,
                                     [error |-> "sub-agent 'a B' failed: " \o child.err])
           /\ Last(sent').site = "toolError"
           /\ Last(calls').out.state = "err"

C12_Inv ==
    pc = "Failed" =>
        err \in {"failed to send message", "failed to send tool error response",
                 "failed to send tool result", "model requested unknown tool"}

C12_ChildFailureContained == [](C12_Inv) /\ [][C12_Step]_vars

\* the child's session failed on its first message, and the parent's model has answered
\* the tool result that carries the child's error
C12_Witness ==
    /\ pc = "ProcessingResponse"
    /\ Len(sent) = 2
    /\ sent[2].msg = FunctionResponse(SubToolName,
                         [error |-> "sub-agent 'a B' failed: failed to send message"])
    /\ sent[2].answer = "ok"

\* the child's Run is between its call and its return
ChildRunning == child.pc \notin {"Idle", "Done", "Failed"}

\* C22: a call of the sub-agent tool blocks the parent: from the dispatch of the tool to
\* the end of the child's Run the parent sends no message and looks at no response, and
\* the tool result for the call is sent only when the child's Run has ended.
C22_Inv ==
    child.pc # "Idle" =>
        /\ pc = "DispatchingTool"
        /\ Last(calls).out = Running
        /\ Last(sent).answer = "ok"

C22_Step ==
    /\ ChildRunning => (pc' = pc /\ sent' = sent /\ resp' = resp /\ calls' = calls)
    /\ (pc = "DispatchingTool" /\ StringPrompt(fc) /\ sent' # sent) =>
           /\ child.pc \in {"Done", "Failed"}
           /\ child'.pc = "Idle"
           /\ Last(sent').msg.kind = "FunctionResponse"

C22_SubAgentCallBlocks == [](C22_Inv) /\ [][C22_Step]_vars

\* the child is waiting for its model after a tool call of its own while the parent
\* is still in the dispatch of the sub-agent tool with one message sent
C22_Witness ==
    /\ pc = "DispatchingTool"
    /\ Len(sent) = 1
    /\ child.pc = "AwaitingModel"
    /\ Len(child.sent) = 2

\* C13: when prompt is absent from the arguments of the sub-agent tool, or is not a
\* string, the tool fails with the invalid-argument error and the child's Run is not
\* called: the child starts no session and sends no message.
C13_Inv ==
    child.pc # "Idle" => (fc.args.prompt.present /\ fc.args.prompt.type = "string")

C13_Step ==
    (pc = "DispatchingTool" /\ child.pc = "Idle" /\ ~StringPrompt(fc)) =>
        /\ child' = child
        /\ modelTools' = modelTools
        /\ sent' # sent =>
               /\ Last(calls').out
                      = ExecErr([msg |-> "invalid 'prompt' argument, expected a string"])
               /\ Last(sent').msg
                      = FunctionResponse(fc.name,
                            [error |-> "invalid 'prompt' argument, expected a string"])
               /\ pc' = "AwaitingModel"

C13_InvalidPromptRejected == [](C13_Inv) /\ [][C13_Step]_vars

\* the tool was called without a string prompt before the child ever ran
C13_Witness ==
    /\ pc = "AwaitingModel"
    /\ Last(sent).msg = FunctionResponse(SubToolName,
                            [error |-> "invalid 'prompt' argument, expected a string"])
    /\ child.pc = "Idle"
    /\ child.sent = <<>>
    /\ ChildModelTools = <<>>

\* C23: a Run starts in AwaitingModel and moves only from AwaitingModel to
\* ProcessingResponse, from ProcessingResponse to DispatchingTool, Done or Failed, and
\* from DispatchingTool back to AwaitingModel; Failed is also entered from AwaitingModel
\* when the send itself fails. Nothing is sent or dispatched after Done or Failed, and
\* DispatchingTool is entered only from ProcessingResponse on a response with a call.
C23_Step ==
    /\ pc' # pc =>
           \/ pc = "Idle" /\ pc' = "AwaitingModel" /\ Len(sent') = 1
           \/ pc = "AwaitingModel" /\ pc' = "ProcessingResponse"
           \/ pc = "AwaitingModel" /\ pc' = "Failed" /\ Last(sent').answer = "error"
           \/ pc = "ProcessingResponse" /\ pc' \in {"DispatchingTool", "Done", "Failed"}
           \/ pc = "DispatchingTool" /\ pc' = "AwaitingModel"
           \/ pc \in {"Done", "Failed"} /\ pc' = "Idle"
    /\ pc' = pc => (sent' = sent /\ calls' = calls)
    /\ (pc' = "DispatchingTool" /\ pc' # pc) =>
           (HasCall(resp) /\ IsFirstCall(resp.parts, FirstFunctionCall(resp.parts)))
    /\ pc \in {"Done", "Failed"} => (sent' = <<>> /\ calls' = <<>> /\ looked' = <<>>)

C23_Inv ==
    /\ pc \in {"Idle", "AwaitingModel", "ProcessingResponse", "DispatchingTool", "Done", "Failed"}
    /\ pc = "AwaitingModel" <=> (sent # <<>> /\ Last(sent).answer = "pending")
    /\ pc = "DispatchingTool" => (calls # <<>> /\ Last(calls).out = Running)

C27_Step ==
    /\ (pc' # pc \/ sent' # sent \/ calls' # calls \/ resp' # resp) => tools' = tools
    /\ tools' # tools => (lastReg' # lastReg /\ tools' = lastReg')

C27_Inv ==
    (pc # "Idle" /\ lastReg = startTools) => tools = startTools

C27_RunLeavesRegistry == [](C27_Inv) /\ [][C27_Step]_vars

\* a Run that dispatched a tool which failed, and then failed itself, with both tools
\* still registered as they were when it started
C27_Witness ==
    /\ pc = "Failed"
    /\ Len(calls) >= 1
    /\ calls[1].out.state = "err"
    /\ Registered(tools) = ToolNames
    /\ tools = startTools

----------------------------------------------------------------------------
\* Properties of generateSchemaFromStruct.

\* the field is skipped: it has no json tag, or its json tag is "-"
Skipped(f) == f.tag = <<>> \/ f.tag = <<"-">>
\* the name before the first comma of the json tag
WireName(f) == Split(f.tag, ",")[1]
\* one of the options after the name is omitempty
MarkedOptional(f) ==
    LET parts == Split(f.tag, ",") IN \E k \in 2..Len(parts) : parts[k] = Omitempty
\* C17: in a schema generateSchemaFromStruct returns, the wire name of a field is in
\* required if and only if the field is not marked omitempty.
C17_RequiredIffNotOptional ==
    schemaOut.state = "ok" =>
        \A i \in DOMAIN structIn :
            ~Skipped(structIn[i]) =>
                (WireName(structIn[i]) \in Range(schemaOut.required)
                    <=> ~MarkedOptional(structIn[i]))

\* C18: a field without a wire name, or with the json tag "-", adds nothing to
\* properties or required, so no property and no required entry has the empty name.
C18_NoEmptyPropertyName ==
    schemaOut.state = "ok" =>
        /\ <<>> \notin DOMAIN schemaOut.properties
        /\ <<>> \notin Range(schemaOut.required)
        /\ Cardinality(DOMAIN schemaOut.properties)
               <= Cardinality({i \in DOMAIN structIn : WireName(structIn[i]) \notin {<<>>, <<"-">>}})

\* the struct type has a field that is not skipped and is of no supported kind
HasUnsupported(fields) ==
    \E i \in DOMAIN fields :
        /\ ~Skipped(fields[i])
        /\ fields[i].kind \notin {"string", "int", "float64", "bool"}

\* C19: generating the schema of a struct type with a non-skipped field that is not a
\* string, an integer, a floating-point number or a boolean fails with the
\* unsupported-type error and returns no schema, not even a partial one; RegisterTool
\* then returns an error and adds nothing to tools, toolFuncs or model.Tools.
C19_Inv ==
    (mgr.shape = "ok" /\ HasUnsupported(structIn)) =>
        /\ schemaOut.state = "err"
        /\ schemaOut.msg = "unsupported type for field"
        /\ PropertiesOf(schemaOut) = EmptyMap
        /\ mgr.ret = "failed to generate schema from struct: unsupported type for field"

C19_Step ==
    (mgr'.shape = "ok" /\ HasUnsupported(structIn')) =>
        /\ mgr'.tools = mgr.tools
        /\ mgr'.toolFuncs = mgr.toolFuncs
        /\ mgr'.modelTools = mgr.modelTools

C19_UnsupportedFieldRejected == [](C19_Inv) /\ [][C19_Step]_vars

\* after one tool was registered, a func(T) (string, error) whose T has a supported and
\* then an unsupported field was refused
C19_Witness ==
    /\ mgr.shape = "ok"
    /\ structIn = <<[tag |-> <<"x">>, kind |-> "string", desc |-> "d"],
                    [tag |-> <<"x">>, kind |-> "slice", desc |-> "d"]>>
    /\ schemaOut.state = "err"
    /\ mgr.ret # ""
    /\ Len(mgr.modelTools) = 1
    /\ mgr.tools["t2"] = NoSchema

\* toolFunc is not a func(T) (string, error) with a struct T
NotStringErrorFunc(shape) == shape \in FuncShapes \ {"ok"}

\* C29: RegisterTool returns an error and leaves tools, toolFuncs and model.Tools as
\* they were whenever toolFunc is not a function, has not one argument and two results,
\* takes an argument that is not a struct, or does not return (string, error); a tool
\* is registered only when all these checks and the schema generation succeed.
C29_BadToolFuncRejected ==
    /\ (mgr.shape # "" /\ NotStringErrorFunc(mgr.shape)) => mgr.ret # ""
    /\ \A i \in DOMAIN mgr.modelTools :
           /\ mgr.tools[mgr.modelTools[i].name] # NoSchema
           /\ mgr.toolFuncs[mgr.modelTools[i].name] = "wrapperFunc"
    /\ (mgr.shape # "" /\ mgr.ret = "") =>
           (mgr.shape = "ok" /\ schemaOut.state = "ok"
               /\ Last(mgr.modelTools).params = schemaOut)

\* C20: the properties of a generated schema come in the order in which their fields
\* are declared (two calls on one struct type give equal schemas: the generator is a
\* function of the struct type).
C20_PropertiesInDeclarationOrder ==
    propOrder # Unset =>
        /\ schemaOut = generateSchemaFromStruct(structIn)
        /\ \A i, j \in DOMAIN propOrder :
               i < j => \E a, b \in DOMAIN structIn :
                            /\ a < b
                            /\ ~Skipped(structIn[a]) /\ WireName(structIn[a]) = propOrder[i]
                            /\ ~Skipped(structIn[b]) /\ WireName(structIn[b]) = propOrder[j]

----------------------------------------------------------------------------
\* Properties of NewAgent.

\* C30: NewAgent returns an error and no agent when Setup has not initialized the global
\* client, and when the config names no model and there is no global default model;
\* otherwise it returns an agent with an empty tool registry whose model is the named
\* model or, when none is named, the global default model.
C30_Inv ==
    setup.last.op = "NewAgent" =>
        IF ~setup.client
        THEN setup.ret # "" /\ setup.agent = NoAgent
        ELSE IF setup.last.arg = "" /\ setup.globalModel = ""
        THEN setup.ret # "" /\ setup.agent = NoAgent
        ELSE /\ setup.ret = ""
             /\ Registered(setup.agent.tools) = {}
             /\ setup.last.arg # "" =>
                    setup.agent.model = [global |-> FALSE, name |-> setup.last.arg]
             /\ setup.last.arg = "" =>
                    setup.agent.model = [global |-> TRUE, name |-> setup.globalModel]
             /\ Last(setup.agents) = setup.agent

C30_Step ==
    (setup'.last.op = "NewAgent" /\ setup'.ret # "") => setup'.agents = setup.agents

----------------------------------------------------------------------------
\* Properties of the AgentManager.

\* C25: NewAgent stores the agent it creates in the manager under its name; NewSubagent
\* stores the sub-agent it creates under the parent's subAgents and in the manager; so
\* every name in the subAgents of any agent is a key of the manager's agents.
C25_Inv ==
    /\ \A o \in DOMAIN manager.objs : \A n \in AgentNames :
           manager.objs[o].subAgents[n] # 0 => manager.agents[n] # 0
    /\ manager.last.op \in {"NewAgent", "NewSubagent"} =>
           /\ manager.agents[manager.last.name] = Len(manager.objs)
           /\ Last(manager.objs).name = manager.last.name
    /\ manager.last.op = "NewSubagent" =>
           manager.objs[manager.last.parent].subAgents[manager.last.name] = Len(manager.objs)

C25_Step ==
    \A n \in AgentNames :
        /\ manager.agents[n] # 0 => manager'.agents[n] # 0
        /\ \A o \in DOMAIN manager.objs :
               manager.objs[o].subAgents[n] # 0 => manager'.objs[o].subAgents[n] # 0

C25_SubAgentsKnownToManager == [](C25_Inv) /\ [][C25_Step]_vars

\* the agent Parent made the sub-agent Child, and then another agent named Parent took
\* the first one's place in the manager
C25_Witness ==
    /\ Len(manager.objs) = 3
    /\ manager.objs[1].name = "Parent"
    /\ manager.objs[1].subAgents["Child"] = 2
    /\ manager.agents["Child"] = 2
    /\ manager.agents["Parent"] = 3

----------------------------------------------------------------------------
\* Properties of Agent.ExecuteTask.

\* the first part of the first response is a call to a tool in toolFuncs
FirstIsRegisteredCall ==
    /\ Len(task.resps) >= 1
    /\ HasFirstPart(task.resps[1])
    /\ task.resps[1].parts[1].kind = "FunctionCall"
    /\ mgr.toolFuncs[task.resps[1].parts[1].name] # NoFunc
\* the tool has returned (s, nil)
ToolReturnedOk == task.invoked # <<>> /\ task.out \notin {"", "decodeError", "executionError"}
TaskReturned == task.pc \in {"Done", "Failed", "Panicked"}

\* C26: when the first part of the model's first response is a call to a registered
\* tool and the tool returns (s, nil), the function response {result: s} is sent under
\* the same tool name, and ExecuteTask returns, without error, the text of the response
\* that follows.
C26_ExecuteTaskReturnsFollowingText ==
    (FirstIsRegisteredCall /\ ToolReturnedOk)
        => /\ Len(task.sent) = 2
           /\ task.sent[2] = FunctionResponse(task.resps[1].parts[1].name,
                                              [result |-> task.out])
           /\ (TaskReturned /\ Len(task.resps) = 2)
                  => /\ task.pc = "Done"
                     /\ task.err = ""
                     /\ task.result = responseToText(task.resps[2])

\* C28: when the args of a call do not decode into the tool's parameter struct, the
\* registered function is not invoked, and the decode error goes back to the model as
\* the result of the call: ExecuteTask does not return with an error.
C28_DecodeErrorGoesToModel ==
    (task.out = "decodeError")
        => /\ task.invoked = <<>>
           /\ task.pc # "Failed"
           /\ Len(task.sent) = 2
           /\ task.sent[2].kind = "FunctionResponse"
           /\ task.sent[2].name = task.fc.name

----------------------------------------------------------------------------
\* Properties of sub-agent tools on a chain of Run calls.

\* C24: a sub-agent call that would enter an agent already running on the chain of
\* calls in progress is refused and answered as a tool error: no agent runs twice on
\* one chain.
C24_NoAgentTwiceOnChain ==
    \A i, j \in DOMAIN chain : i # j => chain[i].agent # chain[j].agent

----------------------------------------------------------------------------
\* Properties of Run calls in progress at the same time.

\* C21: Run calls in progress at the same time do not interfere: every message a run
\* sends advertises exactly the tools registered with its own agent.
C21_RunsAdvertiseOwnTools ==
    \A g \in Goroutines :
        \A k \in DOMAIN runs.run[g].adv :
            runs.run[g].adv[k] \in FuncDecls(ConcRegistry(runs.run[g].agent))

\* C9: in every run, with other runs in progress or not, every tool that is in the
\* agent's registry when Run is called is advertised with the initial prompt.
C9_PromptAdvertisesRegistry ==
    \A g \in Goroutines :
        (runs.run[g].adv # <<>>)
            => Registered(ConcRegistry(runs.run[g].agent)) \subseteq Range(runs.run[g].adv[1])

----------------------------------------------------------------------------
\* Properties of Setup and Close.

\* C31: a Setup call with a valid config made while a global client exists returns
\* success and leaves the global client and the global default model as they were,
\* whatever model name and generation settings the config carries.
C31_Step ==
    (setup.client /\ setup'.last.op = "Setup" /\ setup'.cfg.ids)
        => /\ setup'.ret = ""
           /\ setup'.client = setup.client
           /\ setup'.closed = setup.closed
           /\ setup'.globalModel = setup.globalModel
           /\ setup'.globalGen = setup.globalGen
           /\ setup'.agents = setup.agents

C32_NoAgentOnClosedClient ==
    (setup.closed /\ setup.last.op = "NewAgent")
        => setup.ret # "" /\ setup.agent = NoAgent

----------------------------------------------------------------------------
\* Properties of the tool collections of the manager-based Agent.

DeclaredNames == {mgr.modelTools[i].name : i \in DOMAIN mgr.modelTools}
ToolKeys == {n \in DOMAIN mgr.tools : mgr.tools[n] # NoSchema}
ToolFuncKeys == {n \in DOMAIN mgr.toolFuncs : mgr.toolFuncs[n] # NoFunc}

\* C33: after any sequence of registrations, re-registrations of a name included, the
\* model's tool list has exactly one declaration per registered name, and the names
\* declared there, the keys of tools and the keys of toolFuncs are the same set.
C33_OneDeclarationPerName ==
    /\ \A i, j \in DOMAIN mgr.modelTools :
           i # j => mgr.modelTools[i].name # mgr.modelTools[j].name
    /\ DeclaredNames = ToolKeys
    /\ ToolKeys = ToolFuncKeys

----------------------------------------------------------------------------
\* Properties of the required list of generateSchemaFromStruct.

\* C35: every schema generateSchemaFromStruct returns is well formed: no name occurs
\* twice in required, and every name in required is a key of properties, also when two
\* fields of the struct carry the same wire name.
C35_RequiredIsSetOfProperties ==
    schemaOut.state = "ok" =>
        /\ \A i, j \in DOMAIN schemaOut.required :
               i # j => schemaOut.required[i] # schemaOut.required[j]
        /\ Range(schemaOut.required) \subseteq DOMAIN schemaOut.properties

\* C34: the tool menu of every message of a run is exactly the set of tools registered
\* with the agent that runs: empty for an agent without tools, and without the tools of
\* an agent that shares the global default model and ran earlier.
C34_MenuIsOwnRegistry ==
    \A k \in DOMAIN runs.run[1].adv :
        Range(runs.run[1].adv[k]) = Registered(ConcRegistry(runs.run[1].agent))

============================================================================
